---- MODULE Spec2Model ----
(***************************************************************************)
(* Expense Tracker 2.0: the App component's state (transactions, settings, *)
(* AI candidate lists, notification), the AiTools view (statement upload,  *)
(* re-analysis, add modal, batch delete), the Add form, the Database view  *)
(* (refresh, update, delete) and the sheet service (fetchTransactions,     *)
(* saveTransaction).                                                       *)
(*                                                                         *)
(* Amounts are exact decimal quantities counted in thousandths of the      *)
(* currency unit (50000 is 50.00).  Dates are day numbers: the string      *)
(* 'YYYY-MM-DD' of day d parses to d * MsPerDay (days 0 to 24, so that the *)
(* milliseconds stay within TLC's integers); BadDate is a non-empty        *)
(* string that Date cannot parse, NoDate is undefined / ''.  Every reading *)
(* of Date.now() by a handler happens at a later millisecond than the      *)
(* reading before it (the handlers run on user events and network          *)
(* responses).                                                             *)
(***************************************************************************)
EXTENDS Integers, Sequences, FiniteSets, TLC

\* ---------------------------------------------------------------- bounds
MaxNow == 3          \* readings of Date.now(): ids handed out in one run
MaxUploads == 1      \* statement analyses in flight at once
MaxRefresh == 1      \* sheet fetches in flight at once
NumCats == 1         \* categories kept of each default list
MaxTx == 3           \* transactions a refresh may grow the list to
MaxRows == 1         \* rows of the remote sheet
MaxCats == 2         \* categories a list grows to
MaxUsed == 2         \* transactions recorded while categories are managed
MaxList == 3         \* categories a list grows to while it is reordered

\* ------------------------------------------------------ program constants
Epsilon == 10                    \* 0.01, in thousandths
DayWindow == 10
MsPerDay == 86400000             \* 1000 * 3600 * 24
NoteLimit == 20
Today == 21                      \* new Date().toISOString().split('T')[0]

NaN == -1                        \* Date.getTime() of an invalid date
BadDate == -1                    \* a date string that does not parse
NoDate == -2                     \* date undefined
NaNAmount == 1000000000          \* parseFloat of a text that is no number
NullAmount == 1000000001         \* the JSON null read back as an amount

DEFAULT_SHEET_ID == "1BScmi-6DI1Cj7VRMaKdpSVYyo2ibtHfkV3icz1OYBdM"
DocsUrl == "https://docs.google.com/spreadsheets/d/1BScmi/edit"
ScriptUrl == "https://script.google.com/macros/s/AKfy/exec"

DEFAULT_EXPENSE_CATEGORIES ==
    << "Family Allowance", "Lunch", "Entertainment", "Dinner", "Balancing Figure",
       "Subscription (HK Career)", "Transportation", "Clothing", "My Treat",
       "Snacks and Coffee", "Donation", "Sports", "Others", "Breakfast",
       "Personal Care", "Health", "Personal Investment",
       "Entertainment Subscription", "Traveling" >>

DEFAULT_INCOME_CATEGORIES ==
    << "Employment", "Side Hustle", "Dividends", "My Sweat Money",
       "Capital Gain (Stock)" >>

DEFAULT_INVESTMENT_CATEGORIES ==
    << "Long-Term Stock", "SPY", "Day Trading Stocks", "Retirement Account",
       "Emergency Fund" >>

Types == {"expense", "income", "investment"}

\* ---------------------------------------------------------------- helpers
Abs(n) == IF n < 0 THEN -n ELSE n

Range(s) == {s[i] : i \in 1..Len(s)}

Includes(s, x) == \E i \in 1..Len(s) : s[i] = x

\* Array.prototype.filter
Filter(s, keep(_)) == SelectSeq(s, keep)

Map(s, f(_)) == [i \in 1..Len(s) |-> f(s[i])]

\* Array.prototype.find: the first element that satisfies the test.
FindIndex(s, test(_)) ==
    IF \E i \in 1..Len(s) : test(s[i])
    THEN CHOOSE i \in 1..Len(s) : test(s[i]) /\ \A j \in 1..(i - 1) : ~test(s[j])
    ELSE 0

\* String.prototype.includes
StrIncludes(str, part) ==
    \E i \in 1..(Len(str) - Len(part) + 1) : SubSeq(str, i, i + Len(part) - 1) = part

\* new Date(date).getTime()
getTime(date) == IF date >= 0 THEN date * MsPerDay ELSE NaN

isNaN(t) == t = NaN

getTransactionType(category, incomeCategories, investmentCategories) ==
    IF Includes(incomeCategories, category) THEN "income"
    ELSE IF Includes(investmentCategories, category) THEN "investment"
    ELSE "expense"

\* ------------------------------------------------------------------ state
VARIABLES
    view,                  \* App: the mounted view
    settings,              \* App: AppSettings
    transactions,          \* App: Transaction[]
    sortedTransactions,    \* App: useMemo over transactions
    aiFoundItems,          \* App: FoundItem[] (the suggested list)
    aiMatchedItems,        \* App: MatchedItemPair[]
    notification,          \* App: the toast, "" when none
    isAiSelectModeActive,  \* App
    now,                   \* the last value Date.now() returned
    analyzing,             \* AiTools
    selectedItem,          \* AiTools: << >> when null, else << [item, originalId] >>
    modalStep,             \* AiTools
    selectedType,          \* AiTools
    selectedCategory,      \* AiTools
    selectedIds,           \* AiTools
    showDeleteConfirm,     \* AiTools
    uploads,               \* handleFileUpload calls awaiting analyzeStatement
    loading,               \* AddTransaction
    refreshes,             \* handleRefreshFromSheet calls awaiting fetch
    requests,              \* saveTransaction POSTs awaiting their response
    saveResult,            \* what the last settled saveTransaction promise gave
    confirmedIds           \* history: candidate ids the user has confirmed

appVars == << view, settings, transactions, sortedTransactions, aiFoundItems,
              aiMatchedItems, notification, isAiSelectModeActive, now >>
aiVars == << analyzing, selectedItem, modalStep, selectedType, selectedCategory,
             selectedIds, showDeleteConfirm, uploads >>
netVars == << loading, refreshes, requests, saveResult, confirmedIds >>
vars == << appVars, aiVars, netVars >>

\* ------------------------------------------------- sortedTransactions memo
\* The comparator new Date(b.date) - new Date(a.date) of Array.prototype.sort.
\* The sort is stable; with an invalid date the comparator yields NaN, it is no
\* consistent comparator and the order is implementation-defined.
InsertDesc(sorted, tx) ==
    LET k == Cardinality({i \in 1..Len(sorted) :
                            getTime(sorted[i].date) >= getTime(tx.date)})
    IN  SubSeq(sorted, 1, k) \o << tx >> \o SubSeq(sorted, k + 1, Len(sorted))

RECURSIVE StableSortDesc(_)
StableSortDesc(txs) ==
    IF txs = << >> THEN << >>
    ELSE InsertDesc(StableSortDesc(SubSeq(txs, 1, Len(txs) - 1)), txs[Len(txs)])

Orderings(txs) ==
    LET n == Len(txs)
        P == {p \in [1..n -> 1..n] : \A i, j \in 1..n : p[i] = p[j] => i = j}
    IN  {[i \in 1..n |-> txs[p[i]]] : p \in P}

SortedOrders(txs) ==
    IF \A i \in 1..Len(txs) : ~isNaN(getTime(txs[i].date))
    THEN {StableSortDesc(txs)}
    ELSE Orderings(txs)

\* setTransactions(newTxs) followed by the render that recomputes the memo.
SetTransactions(newTxs) ==
    /\ transactions' = newTxs
    /\ IF newTxs = transactions
       THEN sortedTransactions' = sortedTransactions
       ELSE sortedTransactions' \in SortedOrders(newTxs)

\* ------------------------------------------------------------------- Init
Categories(defaults) == SubSeq(defaults, 1, NumCats)

DefaultSettings ==
    [ sheetDbUrl |-> DEFAULT_SHEET_ID,
      monthlyBudget |-> 3000,
      monthlyCategoryBudgets |-> << >>,
      incomeCategories |-> Categories(DEFAULT_INCOME_CATEGORIES),
      expenseCategories |-> Categories(DEFAULT_EXPENSE_CATEGORIES),
      investmentCategories |-> Categories(DEFAULT_INVESTMENT_CATEGORIES) ]

\* The state of a first start: nothing in localStorage.
Init ==
    /\ view = "dashboard"
    /\ settings = DefaultSettings
    /\ transactions = << >>
    /\ sortedTransactions = << >>
    /\ aiFoundItems = << >>
    /\ aiMatchedItems = << >>
    /\ notification = ""
    /\ isAiSelectModeActive = FALSE
    /\ now = 0
    /\ analyzing = FALSE
    /\ selectedItem = << >>
    /\ modalStep = 1
    /\ selectedType = "expense"
    /\ selectedCategory = ""
    /\ selectedIds = {}
    /\ showDeleteConfirm = FALSE
    /\ uploads = << >>
    /\ loading = FALSE
    /\ refreshes = << >>
    /\ requests = << >>
    /\ saveResult = "none"
    /\ confirmedIds = {}

\* ------------------------------------------------------------ App helpers
\* showNotification: the toast is replaced; a timer clears it 3 s later.
showNotification(message) == notification' = message

NotificationTimeout ==
    /\ notification # ""
    /\ notification' = ""
    /\ UNCHANGED << view, settings, transactions, sortedTransactions, aiFoundItems,
                    aiMatchedItems, isAiSelectModeActive, now, aiVars, netVars >>

CategoriesOf(type) ==
    IF type = "expense" THEN settings.expenseCategories
    ELSE IF type = "income" THEN settings.incomeCategories
    ELSE settings.investmentCategories

\* expenseCategories[0] || '' and its like
FirstOr(cats, dflt) == IF Len(cats) > 0 THEN cats[1] ELSE dflt

\* An overlay of the AiTools view covers the navigation bar and the header.
AiOverlay == selectedItem # << >> \/ showDeleteConfirm

\* Navigation.onChangeView / the header's settings button.  Leaving a view
\* unmounts its component: its local state is gone and the setters its pending
\* callbacks call have no effect any more.
ChangeView(v) ==
    /\ v # view
    /\ ~AiOverlay
    /\ ~isAiSelectModeActive \/ v = "settings"
    /\ view' = v
    /\ analyzing' = FALSE
    /\ selectedItem' = << >>
    /\ modalStep' = 1
    /\ selectedType' = "expense"
    /\ selectedCategory' = ""
    /\ selectedIds' = {}
    /\ showDeleteConfirm' = FALSE
    /\ uploads' = [i \in 1..Len(uploads) |-> [uploads[i] EXCEPT !.mounted = FALSE]]
    /\ loading' = FALSE
    /\ refreshes' = [i \in 1..Len(refreshes) |-> [refreshes[i] EXCEPT !.mounted = FALSE]]
    /\ UNCHANGED << settings, transactions, sortedTransactions, aiFoundItems,
                    aiMatchedItems, notification, isAiSelectModeActive, now,
                    requests, saveResult, confirmedIds >>

\* An onAdd that announces the transaction without recording it, for contrast
\* with handleAddTransaction below.
handleAddTransactionLost(t) ==
    /\ SetTransactions(transactions)
    /\ showNotification("Added: " \o (IF t.note # "" THEN t.note ELSE t.category))

\* handleAddTransaction (App)
handleAddTransaction(t) ==
    /\ SetTransactions(<< t >> \o transactions)
    /\ LET shortNote == IF Len(t.note) > NoteLimit
                        THEN SubSeq(t.note, 1, NoteLimit) \o "..."
                        ELSE t.note
       IN  showNotification("Added: " \o (IF shortNote # "" THEN shortNote ELSE t.category))

\* A test that takes only the empty url for the read-only source, for
\* contrast with SaveIsMock below.
SaveIsMockEmptyOnly(sheetDbUrl) == sheetDbUrl = ""

\* ----------------------------------------------------------- sheetService
\* saveTransaction up to its fetch: nothing is sent for an empty or a
\* docs.google.com url and the promise resolves to true at once; otherwise one
\* POST carrying the transaction is sent.
SaveIsMock(sheetDbUrl) == sheetDbUrl = "" \/ StrIncludes(sheetDbUrl, "docs.google.com")

saveTransaction(sheetDbUrl, transaction) ==
    IF SaveIsMock(sheetDbUrl)
    THEN /\ requests' = requests
         /\ saveResult' = "true"
    ELSE /\ requests' = Append(requests,
                               [url |-> sheetDbUrl, action |-> "add", data |-> transaction])
         /\ saveResult' = saveResult

\* A promise that rejects when the fetch throws, for contrast with SaveOutcome
\* below.
SaveOutcomeRejects(outcome) ==
    IF outcome = "ok" THEN "true" ELSE IF outcome = "throw" THEN "rejected" ELSE "false"

\* What the promise of saveTransaction settles to once the fetch has ended:
\* res.ok, or false from the catch.
SaveOutcome(outcome) == IF outcome = "ok" THEN "true" ELSE "false"

FetchOutcomes == {"ok", "notOk", "throw"}

\* saveTransaction after its await; the callers attach only a .catch that logs.
SaveTransactionSettles(i, outcome) ==
    /\ i \in 1..Len(requests)
    /\ requests' = SubSeq(requests, 1, i - 1) \o SubSeq(requests, i + 1, Len(requests))
    /\ saveResult' = SaveOutcome(outcome)
    /\ UNCHANGED << appVars, aiVars, loading, refreshes, confirmedIds >>

\* --------------------------------------------------------- AddTransaction
FormDates == {11, 21}            \* the date field

\* Fillings of the form: type, parseFloat(amount) and date.
FormInputs ==
    { [type |-> "expense", amount |-> 50000, date |-> 11],
      [type |-> "income", amount |-> 50000, date |-> 21],
      [type |-> "investment", amount |-> 0, date |-> 21] }

OneFormInput == { [type |-> "expense", amount |-> 50000, date |-> 11] }

\* handleSubmit; the form's type is any of the three and its category one of
\* that type's list (the effect on [type, ...] resets it to the first).
HandleSubmit(type, category, amount, date) ==
    /\ view = "add_transaction"
    /\ now < MaxNow
    /\ category \in Range(CategoriesOf(type)) \cup {FirstOr(CategoriesOf(type), "")}
    /\ ~(amount = 0 \/ loading)
    /\ loading' = TRUE
    /\ now' = now + 1
    /\ LET absoluteAmount == Abs(amount)
           finalAmount == IF type = "income" THEN absoluteAmount ELSE -absoluteAmount
           newTx == [ id |-> "local-" \o ToString(now'),
                      date |-> date,
                      amount |-> finalAmount,
                      category |-> category,
                      note |-> "",
                      type |-> type,
                      source |-> "app input" ]
       IN  /\ handleAddTransaction(newTx)
           /\ saveTransaction(settings.sheetDbUrl, newTx)
    /\ UNCHANGED << view, settings, aiFoundItems, aiMatchedItems,
                    isAiSelectModeActive, aiVars, refreshes, confirmedIds >>

\* setTimeout(() => setLoading(false), 500)
LoadingTimeout ==
    /\ loading
    /\ loading' = FALSE
    /\ UNCHANGED << appVars, aiVars, refreshes, requests, saveResult, confirmedIds >>

\* ---------------------------------------------------------------- AiTools
FileName == "s.pdf"

\* What analyzeStatement can extract from a statement: date, amount, category
\* and note of each line (amount 0 and category/note "" stand for a missing
\* field, which the code tests the same way).
ItemA == [date |-> 21, amount |-> 50000, category |-> "Employment", note |-> ""]
ItemB == [date |-> 0, amount |-> 50000, category |-> "", note |-> ""]
ItemC == [date |-> NoDate, amount |-> 0, category |-> "Groceries", note |-> ""]
ItemD == [date |-> BadDate, amount |-> 50005, category |-> "", note |-> ""]

\* The statements uploaded: the list analyzeStatement extracts from each.
Statements == { << ItemA, ItemB >>, << ItemC, ItemD >>, << >> }

SingleLineStatements == { << ItemA >>, << ItemB >> }

\* results.map((r, i) => ({ ...r, id: `ai-${file.name}-${i}-${Date.now()}` }))
WithIds(results, t) ==
    [i \in 1..Len(results) |->
        [ id |-> "ai-" \o FileName \o "-" \o ToString(i - 1) \o "-" \o ToString(t),
          date |-> results[i].date,
          amount |-> results[i].amount,
          category |-> results[i].category,
          note |-> results[i].note,
          added |-> FALSE ]]

\* handleFileUpload, lines 60-69: the duplicate test of the upload.
UploadIsDuplicate(scannedTx, txs) ==
    \E k \in 1..Len(txs) : Abs(Abs(scannedTx.amount) - Abs(txs[k].amount)) < Epsilon

UploadKeeps(scannedTx, txs) == scannedTx.amount # 0 /\ ~UploadIsDuplicate(scannedTx, txs)

SuggestedItems(allResults, txs) ==
    LET keep(scannedTx) == UploadKeeps(scannedTx, txs)
    IN  Filter(allResults, keep)

\* The upload button is rendered while analyzing is false.
HandleFileUploadStarts ==
    /\ view = "ai_tools"
    /\ ~AiOverlay
    /\ ~analyzing
    /\ Len(uploads) < MaxUploads
    /\ analyzing' = TRUE
    /\ uploads' = Append(uploads, [transactions |-> sortedTransactions, mounted |-> TRUE])
    /\ UNCHANGED << appVars, selectedItem, modalStep, selectedType, selectedCategory,
                    selectedIds, showDeleteConfirm, netVars >>

RemoveAt(s, i) == SubSeq(s, 1, i - 1) \o SubSeq(s, i + 1, Len(s))

\* handleFileUpload after analyzeStatement has answered: lines 57-78.  It
\* compares against the transactions of the render that started it.
HandleFileUploadCompletes(i, results) ==
    /\ i \in 1..Len(uploads)
    /\ now < MaxNow
    /\ now' = now + 1
    /\ uploads' = RemoveAt(uploads, i)
    /\ LET allResults == WithIds(results, now')
           suggestedItems == SuggestedItems(allResults, uploads[i].transactions)
       IN  IF Len(suggestedItems) > 0
           THEN /\ aiFoundItems' = suggestedItems \o aiFoundItems
                /\ showNotification(ToString(Len(suggestedItems))
                                    \o " new suggested transaction(s) found.")
           ELSE /\ aiFoundItems' = aiFoundItems
                /\ showNotification("No new transactions found. Your records seem up to date!")
    /\ UNCHANGED << view, settings, transactions, sortedTransactions, aiMatchedItems,
                    isAiSelectModeActive, analyzing, selectedItem, modalStep,
                    selectedType, selectedCategory, selectedIds, showDeleteConfirm,
                    netVars >>

\* fileToGenerativePart or analyzeStatement throws: the catch alerts.
HandleFileUploadFails(i) ==
    /\ i \in 1..Len(uploads)
    /\ uploads' = RemoveAt(uploads, i)
    /\ UNCHANGED << appVars, analyzing, selectedItem, modalStep, selectedType,
                    selectedCategory, selectedIds, showDeleteConfirm, netVars >>

\* finally: setTimeout(() => { setAnalyzing(false); ... }, 500), of the upload
\* this mounted component started.
AnalyzingTimeout ==
    /\ analyzing
    /\ \A i \in 1..Len(uploads) : ~uploads[i].mounted
    /\ analyzing' = FALSE
    /\ UNCHANGED << appVars, selectedItem, modalStep, selectedType, selectedCategory,
                    selectedIds, showDeleteConfirm, uploads, netVars >>

\* A matcher that compares amounts only, for contrast with IsMatch below.
IsMatchAmountOnly(item, existingTx) ==
    item.amount # 0 /\ Abs(Abs(item.amount) - Abs(existingTx.amount)) < Epsilon

\* A matcher whose window is one day wider, for contrast with IsMatch below.
IsMatchWider(item, existingTx) ==
    /\ item.amount # 0 /\ Abs(Abs(item.amount) - Abs(existingTx.amount)) < Epsilon
    /\ ~isNaN(getTime(item.date)) /\ ~isNaN(getTime(existingTx.date))
    /\ Abs(getTime(item.date) - getTime(existingTx.date)) <= (DayWindow + 1) * MsPerDay

\* reanalyzeList, lines 98-108: the test given to transactions.find.
IsMatch(item, existingTx) ==
    IF item.amount # 0 /\ Abs(Abs(item.amount) - Abs(existingTx.amount)) < Epsilon
    THEN LET itemDate == getTime(item.date)
             existingDate == getTime(existingTx.date)
         IN  IF isNaN(itemDate) \/ isNaN(existingDate) THEN FALSE
             ELSE LET timeDiff == Abs(itemDate - existingDate)
                  IN  timeDiff <= DayWindow * MsPerDay   \* timeDiff / MsPerDay <= 10
    ELSE FALSE

\* A search that returns the last match, for contrast with MatchIndex below.
MatchIndexLast(item, txs) ==
    LET hits == {k \in 1..Len(txs) : IsMatch(item, txs[k])}
    IN  IF hits = {} THEN 0 ELSE CHOOSE k \in hits : \A j \in hits : j <= k

\* transactions.find(...): the index of the match, 0 for undefined.
MatchIndex(item, txs) ==
    LET test(existingTx) == IsMatch(item, existingTx)
    IN  FindIndex(txs, test)

\* A filter that forgets the added flag, for contrast with ItemsToKeep below.
ItemsToKeepAdded(list, txs) ==
    LET keep(item) == MatchIndex(item, txs) = 0
    IN  Filter(list, keep)

\* reanalyzeList, lines 92-115, over the transactions prop.
ItemsToKeep(list, txs) ==
    LET keep(item) == ~item.added /\ MatchIndex(item, txs) = 0
    IN  Filter(list, keep)

NewlyMatched(list, txs) ==
    LET hit(item) == ~item.added /\ MatchIndex(item, txs) # 0
        pair(item) == [suggested |-> item, matched |-> txs[MatchIndex(item, txs)]]
    IN  Map(Filter(list, hit), pair)

\* handleGlobalReanalyze: the header of the suggested list is rendered while the
\* list is not empty.
HandleGlobalReanalyze ==
    /\ view = "ai_tools"
    /\ ~AiOverlay
    /\ Len(aiFoundItems) > 0
    /\ LET newlyMatched == NewlyMatched(aiFoundItems, sortedTransactions)
           count == Len(newlyMatched)
       IN  /\ aiFoundItems' = ItemsToKeep(aiFoundItems, sortedTransactions)
           /\ aiMatchedItems' = newlyMatched \o aiMatchedItems
           /\ IF count > 0
              THEN showNotification("Moved " \o ToString(count)
                                    \o " item(s) to the matched section.")
              ELSE showNotification("No new matches found in suggested items.")
    /\ isAiSelectModeActive' = FALSE
    /\ UNCHANGED << view, settings, transactions, sortedTransactions, now, aiVars,
                    netVars >>

\* The re-analyze button of the Matched Items header with a callback that
\* keeps the whole matched list.
HandleMatchedReanalyzeUnfiltered ==
    /\ view = "ai_tools"
    /\ ~AiOverlay
    /\ Len(aiMatchedItems) > 0
    /\ LET matchedSuggestions == [i \in 1..Len(aiMatchedItems) |-> aiMatchedItems[i].suggested]
           newlyMatched == NewlyMatched(matchedSuggestions, sortedTransactions)
           count == Len(newlyMatched)
       IN  /\ aiMatchedItems' = newlyMatched \o aiMatchedItems
           /\ IF count = 0
              THEN showNotification("No new matches found in this section.")
              ELSE notification' = notification
    /\ UNCHANGED << view, settings, transactions, sortedTransactions, aiFoundItems,
                    isAiSelectModeActive, now, aiVars, netVars >>

\* The re-analyze button of the Matched Items header, lines 284-292.
HandleMatchedReanalyze ==
    /\ view = "ai_tools"
    /\ ~AiOverlay
    /\ Len(aiMatchedItems) > 0
    /\ LET matchedSuggestions == [i \in 1..Len(aiMatchedItems) |-> aiMatchedItems[i].suggested]
           newlyMatched == NewlyMatched(matchedSuggestions, sortedTransactions)
           items == ItemsToKeep(matchedSuggestions, sortedTransactions)
           remainingIds == {items[i].id : i \in 1..Len(items)}
           remains(p) == p.suggested.id \in remainingIds
           count == Len(newlyMatched)
       IN  /\ aiMatchedItems' = newlyMatched \o Filter(aiMatchedItems, remains)
           /\ IF count = 0
              THEN showNotification("No new matches found in this section.")
              ELSE notification' = notification
    /\ UNCHANGED << view, settings, transactions, sortedTransactions, aiFoundItems,
                    isAiSelectModeActive, now, aiVars, netVars >>

\* The items rendered with an add button: both lists, not yet added.
AllCandidates ==
    Range(aiFoundItems) \cup {aiMatchedItems[i].suggested : i \in 1..Len(aiMatchedItems)}

\* openAddModal(item, item.id): the button is rendered outside select mode for
\* an item that is not added.
OpenAddModal(item) ==
    /\ view = "ai_tools"
    /\ ~AiOverlay
    /\ ~isAiSelectModeActive
    /\ item \in AllCandidates
    /\ ~item.added
    /\ LET initialType == getTransactionType(item.category, settings.incomeCategories,
                                             settings.investmentCategories)
           defaultCat == IF initialType = "expense" THEN FirstOr(settings.expenseCategories, "")
                         ELSE IF initialType = "income"
                              THEN FirstOr(settings.incomeCategories, "")
                              ELSE FirstOr(settings.investmentCategories, "")
           allCats == settings.expenseCategories \o settings.incomeCategories
                      \o settings.investmentCategories
           isKnown == Includes(allCats, item.category)
       IN  /\ selectedItem' = << [item |-> item, originalId |-> item.id] >>
           /\ selectedType' = initialType
           /\ selectedCategory' = IF isKnown THEN item.category ELSE defaultCat
    /\ modalStep' = 1
    /\ UNCHANGED << appVars, analyzing, selectedIds, showDeleteConfirm, uploads, netVars >>

\* currentCategories, lines 201-203: of the render, hence of the selectedType
\* the handlers of that render see.
currentCategories == CategoriesOf(selectedType)

\* A button of the Select Type step, line 335.
SelectType(type) ==
    /\ selectedItem # << >>
    /\ modalStep = 1
    /\ selectedType' = type
    /\ modalStep' = 2
    /\ selectedCategory' = FirstOr(currentCategories, "")
    /\ UNCHANGED << appVars, analyzing, selectedItem, selectedIds, showDeleteConfirm,
                    uploads, netVars >>

\* A category button of the Select Category step, line 349.
SelectCategory(cat) ==
    /\ selectedItem # << >>
    /\ modalStep = 2
    /\ cat \in Range(currentCategories)
    /\ selectedCategory' = cat
    /\ UNCHANGED << appVars, analyzing, selectedItem, modalStep, selectedType,
                    selectedIds, showDeleteConfirm, uploads, netVars >>

\* Back, line 344.
ModalBack ==
    /\ selectedItem # << >>
    /\ modalStep = 2
    /\ modalStep' = 1
    /\ UNCHANGED << appVars, analyzing, selectedItem, selectedType, selectedCategory,
                    selectedIds, showDeleteConfirm, uploads, netVars >>

\* The close button of the modal, line 329.
CloseModal ==
    /\ selectedItem # << >>
    /\ selectedItem' = << >>
    /\ UNCHANGED << appVars, analyzing, modalStep, selectedType, selectedCategory,
                    selectedIds, showDeleteConfirm, uploads, netVars >>

\* A confirmation that leaves the flag alone, for contrast with MarkAdded below.
MarkAddedNot(it) == it

MarkAdded(it) == [it EXCEPT !.added = TRUE]

\* confirmAddTransaction: Confirm & Add of the Select Category step.
ConfirmAddTransaction ==
    /\ selectedItem # << >>
    /\ modalStep = 2
    /\ now < MaxNow
    /\ now' = now + 1
    /\ LET item == selectedItem[1].item
           originalId == selectedItem[1].originalId
           absoluteAmount == Abs(item.amount)
           finalAmount == IF selectedType = "income" THEN absoluteAmount ELSE -absoluteAmount
           newTx == [ id |-> "local-" \o ToString(now'),
                      date |-> IF item.date # NoDate THEN item.date ELSE Today,
                      amount |-> finalAmount,
                      category |-> selectedCategory,
                      note |-> IF item.note # "" THEN item.note ELSE "Imported Statement Item",
                      type |-> selectedType,
                      source |-> "PDF file" ]
           markFound(it) == IF it.id = originalId THEN MarkAdded(it) ELSE it
           markPair(pair) == IF pair.suggested.id = originalId
                             THEN [pair EXCEPT !.suggested = MarkAdded(pair.suggested)]
                             ELSE pair
       IN  /\ handleAddTransaction(newTx)
           /\ saveTransaction(settings.sheetDbUrl, newTx)
           /\ aiFoundItems' = Map(aiFoundItems, markFound)
           /\ aiMatchedItems' = Map(aiMatchedItems, markPair)
           /\ confirmedIds' = confirmedIds \cup {originalId}
    /\ selectedItem' = << >>
    /\ UNCHANGED << view, settings, isAiSelectModeActive, analyzing, modalStep,
                    selectedType, selectedCategory, selectedIds, showDeleteConfirm,
                    uploads, loading, refreshes >>

\* toggleSelectMode: the Select / Cancel button of a list header.
ToggleSelectMode ==
    /\ view = "ai_tools"
    /\ ~AiOverlay
    /\ Len(aiFoundItems) > 0 \/ Len(aiMatchedItems) > 0
    /\ isAiSelectModeActive' = ~isAiSelectModeActive
    /\ selectedIds' = IF isAiSelectModeActive THEN {} ELSE selectedIds
    /\ UNCHANGED << view, settings, transactions, sortedTransactions, aiFoundItems,
                    aiMatchedItems, notification, now, analyzing, selectedItem,
                    modalStep, selectedType, selectedCategory, showDeleteConfirm,
                    uploads, netVars >>

\* handleSelectItem: a click on an item in select mode.
HandleSelectItem(id) ==
    /\ view = "ai_tools"
    /\ ~AiOverlay
    /\ isAiSelectModeActive
    /\ id \in {it.id : it \in AllCandidates}
    /\ selectedIds' = IF id \in selectedIds THEN selectedIds \ {id} ELSE selectedIds \cup {id}
    /\ UNCHANGED << appVars, analyzing, selectedItem, modalStep, selectedType,
                    selectedCategory, showDeleteConfirm, uploads, netVars >>

\* handleBatchDelete: the bin of the select bar.
HandleBatchDelete ==
    /\ view = "ai_tools"
    /\ ~AiOverlay
    /\ isAiSelectModeActive
    /\ selectedIds # {}
    /\ showDeleteConfirm' = TRUE
    /\ UNCHANGED << appVars, analyzing, selectedItem, modalStep, selectedType,
                    selectedCategory, selectedIds, uploads, netVars >>

\* Cancel of the delete dialog, line 317.
CancelBatchDelete ==
    /\ showDeleteConfirm
    /\ showDeleteConfirm' = FALSE
    /\ UNCHANGED << appVars, analyzing, selectedItem, modalStep, selectedType,
                    selectedCategory, selectedIds, uploads, netVars >>

\* confirmBatchDelete
ConfirmBatchDelete ==
    /\ showDeleteConfirm
    /\ LET keepItem(item) == item.id \notin selectedIds
           keepPair(pair) == pair.suggested.id \notin selectedIds
       IN  /\ aiFoundItems' = Filter(aiFoundItems, keepItem)
           /\ aiMatchedItems' = Filter(aiMatchedItems, keepPair)
    /\ showDeleteConfirm' = FALSE
    /\ isAiSelectModeActive' = FALSE
    /\ UNCHANGED << view, settings, transactions, sortedTransactions, notification,
                    now, analyzing, selectedItem, modalStep, selectedType,
                    selectedCategory, selectedIds, uploads, netVars >>

\* ------------------------------------------------- sheetService: fetching
\* The rows the remote source can hold; id and source matter to the JSON
\* source only ("" stands for a missing field).
SheetRows ==
    { [id |-> "", date |-> 11, amount |-> -50000, category |-> "Family Allowance",
       note |-> "", source |-> ""],
      [id |-> "local-1", date |-> 21, amount |-> 50000, category |-> "Employment",
       note |-> "", source |-> "PDF file"] }

SheetBodies == UNION {[1..n -> SheetRows] : n \in 0..MaxRows}

RandomIds == {"k3x9", "p07q"}    \* Math.random().toString(36).substr(2, 9)

\* fetchTransactions, lines 30-44: a docs.google.com url with a /d/<id> part
\* or the default sheet id is read as CSV.
IsCsv(sheetUrlOrId) ==
    /\ StrIncludes(sheetUrlOrId, "docs.google.com") \/ sheetUrlOrId = DEFAULT_SHEET_ID
    /\ StrIncludes(sheetUrlOrId, "/d/") \/ sheetUrlOrId = DEFAULT_SHEET_ID

\* fetchTransactions, lines 46-105: its result, and whether it threw.  The
\* catch turns every failure of the fetch into an empty list.
fetchTransactions(sheetUrlOrId, incomeCategories, investmentCategories, outcome, body, rnd) ==
    LET determineType(category) ==
            getTransactionType(category, incomeCategories, investmentCategories)
        csvRow(idx) ==
            LET row == body[idx + 1]
                category == IF row.category # "" THEN row.category ELSE "Uncategorized"
                amountStr == IF row.amount = NaNAmount THEN "" ELSE ToString(row.amount)
            IN  [ id |-> "csv-" \o ToString(idx) \o "-" \o ToString(row.date)
                         \o "-" \o amountStr,
                  date |-> IF ~isNaN(getTime(row.date)) THEN row.date ELSE Today,
                  amount |-> IF row.amount = NaNAmount THEN 0 ELSE row.amount,
                  category |-> category,
                  note |-> row.note,
                  type |-> determineType(category),
                  source |-> "IOS shortcut" ]
        jsonItem(d) ==
            [ id |-> IF d.id # "" THEN d.id ELSE rnd,
              date |-> d.date,
              amount |-> d.amount,
              category |-> d.category,
              note |-> d.note,
              type |-> determineType(d.category),
              source |-> IF d.source # "" THEN d.source ELSE "app input" ]
    IN  IF outcome # "ok"
        THEN [threw |-> FALSE, data |-> << >>]
        ELSE IF IsCsv(sheetUrlOrId)
             THEN [threw |-> FALSE, data |-> [k \in 1..Len(body) |-> csvRow(k - 1)]]
             ELSE [threw |-> FALSE, data |-> Map(body, jsonItem)]

\* ---------------------------------------------------------------- Database
\* handleRefresh / handleRefreshFromSheet up to the await: the Refresh button
\* is disabled while this component waits for one.
HandleRefreshStarts ==
    /\ view = "database"
    /\ \A i \in 1..Len(refreshes) : ~refreshes[i].mounted
    /\ Len(refreshes) < MaxRefresh
    /\ refreshes' = Append(refreshes,
          [ urlToFetch |-> IF settings.sheetDbUrl # "" THEN settings.sheetDbUrl
                           ELSE DEFAULT_SHEET_ID,
            incomeCategories |-> settings.incomeCategories,
            investmentCategories |-> settings.investmentCategories,
            mounted |-> TRUE ])
    /\ UNCHANGED << appVars, aiVars, loading, requests, saveResult, confirmedIds >>

\* An updater that takes every fetched transaction for new, for contrast
\* with NewTxsFromSheet below.
NewTxsFromSheetAll(prevTxs, fetchedData) == fetchedData

\* The updater of handleRefreshFromSheet, lines 97-98: the fetched
\* transactions with an id that the list does not hold yet.
NewTxsFromSheet(prevTxs, fetchedData) ==
    LET existingIds == {prevTxs[k].id : k \in 1..Len(prevTxs)}
        isNew(t) == t.id # "" /\ t.id \notin existingIds
    IN  Filter(fetchedData, isNew)

\* handleRefreshFromSheet after the await, lines 96-111.
HandleRefreshCompletes(i, outcome, body, rnd) ==
    /\ i \in 1..Len(refreshes)
    /\ refreshes' = RemoveAt(refreshes, i)
    /\ LET r == refreshes[i]
           fetched == fetchTransactions(r.urlToFetch, r.incomeCategories,
                                        r.investmentCategories, outcome, body, rnd)
       IN  IF fetched.threw
           THEN /\ showNotification("Failed to sync from sheet.")
                /\ UNCHANGED << transactions, sortedTransactions >>
           ELSE LET prevTxs == transactions
                    newTxsFromSheet == NewTxsFromSheet(prevTxs, fetched.data)
                IN  /\ Len(prevTxs) + Len(newTxsFromSheet) <= MaxTx
                    /\ IF Len(newTxsFromSheet) > 0
                       THEN /\ showNotification(ToString(Len(newTxsFromSheet))
                                                \o " new transaction(s) synced.")
                            /\ SetTransactions(prevTxs \o newTxsFromSheet)
                       ELSE /\ showNotification("No new transactions found.")
                            /\ UNCHANGED << transactions, sortedTransactions >>
    /\ UNCHANGED << view, settings, aiFoundItems, aiMatchedItems, isAiSelectModeActive,
                    now, aiVars, loading, requests, saveResult, confirmedIds >>

UpdateAmounts == {50020}         \* the amount field of the edit modal

\* EditModal (date and amount fields) and handleUpdateTransaction
HandleUpdateTransaction(i, date, amount) ==
    /\ view = "database"
    /\ i \in 1..Len(sortedTransactions)
    /\ LET tx == sortedTransactions[i]
           absoluteAmount == Abs(amount)
           finalAmount == IF tx.type = "income" THEN absoluteAmount ELSE -absoluteAmount
           updatedTx == [tx EXCEPT !.date = date, !.amount = finalAmount]
           replace(t) == IF t.id = updatedTx.id THEN updatedTx ELSE t
       IN  SetTransactions(Map(transactions, replace))
    /\ showNotification("Transaction updated!")
    /\ UNCHANGED << view, settings, aiFoundItems, aiMatchedItems, isAiSelectModeActive,
                    now, aiVars, netVars >>

\* confirmDelete and handleDeleteTransaction
HandleDeleteTransaction(txId) ==
    /\ view = "database"
    /\ txId \in {transactions[k].id : k \in 1..Len(transactions)}
    /\ LET keep(tx) == tx.id # txId
       IN  SetTransactions(Filter(transactions, keep))
    /\ showNotification("Transaction deleted!")
    /\ UNCHANGED << view, settings, aiFoundItems, aiMatchedItems, isAiSelectModeActive,
                    now, aiVars, netVars >>

\* ---------------------------------------------------------------- Settings
RECURSIVE Trim(_)
Trim(str) ==
    IF Len(str) > 0 /\ SubSeq(str, 1, 1) = " " THEN Trim(SubSeq(str, 2, Len(str)))
    ELSE IF Len(str) > 0 /\ SubSeq(str, Len(str), Len(str)) = " "
         THEN Trim(SubSeq(str, 1, Len(str) - 1))
         ELSE str

UrlInputs == {" ", DocsUrl, ScriptUrl \o " ", DEFAULT_SHEET_ID}

\* Settings.handleSave and handleSaveSettings
HandleSaveSettings(url) ==
    /\ view = "settings"
    /\ settings' = [settings EXCEPT !.sheetDbUrl = Trim(url)]
    /\ showNotification("Settings Saved!")
    /\ UNCHANGED << view, transactions, sortedTransactions, aiFoundItems, aiMatchedItems,
                    isAiSelectModeActive, now, aiVars, netVars >>

\* -------------------------------------------------------------- Budgeting
\* Month keys 'yyyy-MM' are month numbers; a month's budgets are an object,
\* a list of [category, amount] entries in the order the keys were inserted.
Months == {10, 11}               \* the months the view is turned to
BudgetAmounts == {0, 100000, 250000}   \* parseFloat(e.target.value) || 0

\* monthlyCategoryBudgets[monthKey] || {}
BudgetsOfMonth(budgets, monthKey) ==
    IF monthKey \in DOMAIN budgets THEN budgets[monthKey] ELSE << >>

HasKey(obj, key) == \E k \in 1..Len(obj) : obj[k].category = key

\* obj[key], 0 for undefined
Lookup(obj, key) ==
    IF HasKey(obj, key)
    THEN obj[CHOOSE k \in 1..Len(obj) : obj[k].category = key].amount
    ELSE 0

\* obj[key] = amount
SetKey(obj, key, amount) ==
    IF HasKey(obj, key)
    THEN [k \in 1..Len(obj) |-> IF obj[k].category = key
                                 THEN [category |-> key, amount |-> amount]
                                 ELSE obj[k]]
    ELSE Append(obj, [category |-> key, amount |-> amount])

\* delete obj[key]
DeleteKey(obj, key) ==
    LET other(e) == e.category # key
    IN  Filter(obj, other)

\* handleUpdateCategoryBudget, lines 188-197: newMonthlyBudgets, made from
\* the monthlyCategoryBudgets of the settings the handler's render saw.
NewMonthlyBudgets(seen, monthKey, category, amount) ==
    LET currentMonthBudgets ==
            IF amount > 0
            THEN SetKey(BudgetsOfMonth(seen, monthKey), category, amount)
            ELSE DeleteKey(BudgetsOfMonth(seen, monthKey), category)
    IN  [k \in DOMAIN seen \cup {monthKey} |->
            IF k = monthKey THEN currentMonthBudgets ELSE seen[k]]

\* The queued updaters prev => ({ ...prev, monthlyCategoryBudgets: ... }),
\* applied in the order they were queued.
RECURSIVE SetSettingsEach(_, _)
SetSettingsEach(prev, queued) ==
    IF queued = << >> THEN prev
    ELSE SetSettingsEach([prev EXCEPT !.monthlyCategoryBudgets = Head(queued)],
                         Tail(queued))

\* The budget field of a category, Budgeting line 250.
HandleBudgetInput(monthKey, category, amount) ==
    /\ view = "budget"
    /\ Includes(settings.incomeCategories \o settings.expenseCategories
                \o settings.investmentCategories, category)
    /\ settings' = SetSettingsEach(settings,
            << NewMonthlyBudgets(settings.monthlyCategoryBudgets, monthKey, category, amount) >>)
    /\ UNCHANGED << view, transactions, sortedTransactions, aiFoundItems, aiMatchedItems,
                    notification, isAiSelectModeActive, now, aiVars, netVars >>

\* format(prevMonthDate, 'MMMM yyyy')
MonthName(monthKey) == "month " \o ToString(monthKey)

\* handleCopyFromPrevious, with the month the view is turned to.
HandleCopyFromPrevious(monthKey) ==
    /\ view = "budget"
    /\ LET prevMonthKey == monthKey - 1
           prevMonthBudgets == BudgetsOfMonth(settings.monthlyCategoryBudgets, prevMonthKey)
           queued == [k \in 1..Len(prevMonthBudgets) |->
                        NewMonthlyBudgets(settings.monthlyCategoryBudgets, monthKey,
                                          prevMonthBudgets[k].category,
                                          prevMonthBudgets[k].amount)]
       IN  IF Len(prevMonthBudgets) = 0
           THEN /\ showNotification("Previous month has no budget to copy.")
                /\ settings' = settings
           ELSE /\ settings' = SetSettingsEach(settings, queued)
                /\ showNotification("Copied budget from " \o MonthName(prevMonthKey) \o ".")
    /\ UNCHANGED << view, transactions, sortedTransactions, aiFoundItems, aiMatchedItems,
                    isAiSelectModeActive, now, aiVars, netVars >>

\* --------------------------------------------------------- EditCategories
\* `${type}Categories`
CategoriesKey(type) ==
    IF type = "expense" THEN "expenseCategories"
    ELSE IF type = "income" THEN "incomeCategories" ELSE "investmentCategories"

\* The texts typed into the new-category and rename fields.
NameInputs == {"", " Travel "}

\* The lists the category manager is exercised on.
ManagedTypes == {"expense", "income"}

\* handleAddCategory without its includes test.
HandleAddCategoryUnchecked(type, category) ==
    /\ view = "edit_categories"
    /\ Trim(category) # ""
    /\ LET key == CategoriesKey(type)
       IN  /\ settings' = [settings EXCEPT ![key] = Append(@, Trim(category))]
           /\ showNotification("Added category: " \o category)
    /\ UNCHANGED << view, transactions, sortedTransactions, aiFoundItems, aiMatchedItems,
                    isAiSelectModeActive, now, aiVars, netVars >>

\* handleAddCategory
HandleAddCategory(type, category) ==
    /\ view = "edit_categories"
    /\ Trim(category) # ""
    /\ LET key == CategoriesKey(type)
           currentCats == settings[key]
       IN  IF Includes(currentCats, Trim(category))
           THEN /\ showNotification("Category already exists.")
                /\ settings' = settings
           ELSE /\ settings' = [settings EXCEPT ![key] = Append(currentCats, Trim(category))]
                /\ showNotification("Added category: " \o category)
    /\ UNCHANGED << view, transactions, sortedTransactions, aiFoundItems, aiMatchedItems,
                    isAiSelectModeActive, now, aiVars, netVars >>

\* handleDeleteCategory without its isUsed test.
HandleDeleteCategoryUnchecked(type, categoryToDelete) ==
    /\ view = "edit_categories"
    /\ LET key == CategoriesKey(type)
           other(c) == c # categoryToDelete
       IN  /\ settings' = [settings EXCEPT ![key] = Filter(@, other)]
           /\ showNotification("Deleted category: " \o categoryToDelete)
    /\ UNCHANGED << view, transactions, sortedTransactions, aiFoundItems, aiMatchedItems,
                    isAiSelectModeActive, now, aiVars, netVars >>

\* handleDeleteCategory, the handler App hands to EditCategories (whose
\* delete button is disabled while the category is in use).
HandleDeleteCategory(type, categoryToDelete) ==
    /\ view = "edit_categories"
    /\ LET isUsed == \E k \in 1..Len(transactions) :
                        transactions[k].category = categoryToDelete
           key == CategoriesKey(type)
           other(c) == c # categoryToDelete
       IN  IF isUsed
           THEN /\ showNotification("Cannot delete \"" \o categoryToDelete
                                    \o "\" as it's in use.")
                /\ settings' = settings
           ELSE /\ settings' = [settings EXCEPT ![key] = Filter(@, other)]
                /\ showNotification("Deleted category: " \o categoryToDelete)
    /\ UNCHANGED << view, transactions, sortedTransactions, aiFoundItems, aiMatchedItems,
                    isAiSelectModeActive, now, aiVars, netVars >>

\* handleEditCategory, lines 165-172: the budgets stored under oldName are
\* stored under newName in every month.
RenamedBudgets(budgets, oldName, newName) ==
    [monthKey \in DOMAIN budgets |->
        IF Lookup(budgets[monthKey], oldName) # 0
        THEN DeleteKey(SetKey(budgets[monthKey], newName,
                              Lookup(budgets[monthKey], oldName)), oldName)
        ELSE budgets[monthKey]]

\* handleEditCategory renaming in the category list alone.
HandleEditCategoryListOnly(type, oldName, newName) ==
    /\ view = "edit_categories"
    /\ ~(Trim(newName) = "" \/ oldName = newName)
    /\ LET key == CategoriesKey(type)
           currentCats == settings[key]
           rename(c) == IF c = oldName THEN Trim(newName) ELSE c
       IN  IF Includes(currentCats, Trim(newName))
           THEN /\ showNotification("Category name already exists.")
                /\ settings' = settings
           ELSE /\ settings' = [settings EXCEPT ![key] = Map(@, rename)]
                /\ showNotification("Renamed \"" \o oldName \o "\" to \""
                                    \o Trim(newName) \o "\"")
    /\ UNCHANGED << view, transactions, sortedTransactions, aiFoundItems, aiMatchedItems,
                    isAiSelectModeActive, now, aiVars, netVars >>

\* handleSaveEdit and handleEditCategory
HandleEditCategory(type, oldName, newName) ==
    /\ view = "edit_categories"
    /\ ~(Trim(newName) = "" \/ oldName = newName)
    /\ LET key == CategoriesKey(type)
           currentCats == settings[key]
           rename(c) == IF c = oldName THEN Trim(newName) ELSE c
           recategorise(t) == IF t.category = oldName
                              THEN [t EXCEPT !.category = Trim(newName)] ELSE t
       IN  IF Includes(currentCats, Trim(newName))
           THEN /\ showNotification("Category name already exists.")
                /\ UNCHANGED << settings, transactions, sortedTransactions >>
           ELSE /\ settings' = [settings EXCEPT
                       ![key] = Map(@, rename),
                       !.monthlyCategoryBudgets = RenamedBudgets(@, oldName, Trim(newName))]
                /\ SetTransactions(Map(transactions, recategorise))
                /\ showNotification("Renamed \"" \o oldName \o "\" to \""
                                    \o Trim(newName) \o "\"")
    /\ UNCHANGED << view, aiFoundItems, aiMatchedItems, isAiSelectModeActive, now,
                    aiVars, netVars >>

\* Array.prototype.splice(start, 1): the list without the element at the
\* 0-based index start (unchanged when start is past the end).
SpliceOut(list, start) ==
    [k \in 1..(Len(list) - (IF start < Len(list) THEN 1 ELSE 0)) |->
        IF k <= start THEN list[k] ELSE list[k + 1]]

\* Array.prototype.splice(start, 0, item): item inserted at the 0-based
\* index start, or at the end when start is past it.
SpliceIn(list, start, item) ==
    LET at == IF start < Len(list) THEN start ELSE Len(list)
    IN  SubSeq(list, 1, at) \o << item >> \o SubSeq(list, at + 1, Len(list))

\* handleReorderCategories
HandleReorderCategories(type, reorderedCategories) ==
    /\ settings' = [settings EXCEPT ![CategoriesKey(type)] = reorderedCategories]
    /\ UNCHANGED << view, transactions, sortedTransactions, aiFoundItems, aiMatchedItems,
                    notification, isAiSelectModeActive, now, aiVars, netVars >>

\* One drag gesture on a row of the list of the given type: onDragStart sets
\* dragItem to the row's index, the rows entered set dragOverItem (the refs
\* are shared by the three lists, so it may be an index of another list),
\* and onDragEnd runs handleDragSort, which resets both refs to null.
HandleDragSort(type, dragItem, dragOverItem) ==
    /\ view = "edit_categories"
    /\ LET categories == settings[CategoriesKey(type)]
           draggedItemContent == categories[dragItem + 1]
           newCategories == SpliceIn(SpliceOut(categories, dragItem), dragOverItem,
                                     draggedItemContent)
       IN  /\ dragItem < Len(categories)
           /\ HandleReorderCategories(type, newCategories)

\* ------------------------------------------------------------ localStorage
\* JSON.stringify of a number: NaN is written as null.
StringifyNumber(n) ==
    IF n = NaNAmount THEN [kind |-> "null", value |-> 0] ELSE [kind |-> "number", value |-> n]

\* JSON.parse of what StringifyNumber wrote.
ParseNumber(json) == IF json.kind = "null" THEN NullAmount ELSE json.value

\* JSON.stringify / JSON.parse of a Transaction[] or FoundItem[]: strings and
\* booleans are written and read as they are, undefined fields are left out.
StringifyItems(items) ==
    [k \in 1..Len(items) |-> [items[k] EXCEPT !.amount = StringifyNumber(@)]]

ParseItems(json) ==
    [k \in 1..Len(json) |-> [json[k] EXCEPT !.amount = ParseNumber(@)]]

StringifyPairs(pairs) ==
    [k \in 1..Len(pairs) |->
        [ suggested |-> [pairs[k].suggested EXCEPT !.amount = StringifyNumber(@)],
          matched |-> [pairs[k].matched EXCEPT !.amount = StringifyNumber(@)] ]]

ParsePairs(json) ==
    [k \in 1..Len(json) |->
        [ suggested |-> [json[k].suggested EXCEPT !.amount = ParseNumber(@)],
          matched |-> [json[k].matched EXCEPT !.amount = ParseNumber(@)] ]]

StringifySettings(st) == [st EXCEPT !.monthlyBudget = StringifyNumber(@)]

\* The settings initialiser, lines 19-40: { ...defaults, ...parsed }.
ParseSettings(json) ==
    LET parsed == [json EXCEPT !.monthlyBudget = ParseNumber(@)]
    IN  [k \in DOMAIN DefaultSettings |->
            IF k \in DOMAIN parsed THEN parsed[k] ELSE DefaultSettings[k]]

\* The four items of localStorage once the effects of lines 66-80 have run.
localStorage ==
    [ transactions |-> StringifyItems(transactions),
      aiFoundItems |-> StringifyItems(aiFoundItems),
      aiMatchedItems |-> StringifyPairs(aiMatchedItems),
      appSettings |-> StringifySettings(settings) ]

\* A reload of the page: App is constructed again from localStorage, every
\* view is unmounted and the pending promises of the old page are gone.
Reload ==
    /\ view' = "dashboard"
    /\ settings' = ParseSettings(localStorage.appSettings)
    /\ SetTransactions(ParseItems(localStorage.transactions))
    /\ aiFoundItems' = ParseItems(localStorage.aiFoundItems)
    /\ aiMatchedItems' = ParsePairs(localStorage.aiMatchedItems)
    /\ notification' = ""
    /\ isAiSelectModeActive' = FALSE
    /\ analyzing' = FALSE
    /\ selectedItem' = << >>
    /\ modalStep' = 1
    /\ selectedType' = "expense"
    /\ selectedCategory' = ""
    /\ selectedIds' = {}
    /\ showDeleteConfirm' = FALSE
    /\ uploads' = << >>
    /\ loading' = FALSE
    /\ refreshes' = << >>
    /\ requests' = << >>
    /\ saveResult' = "none"
    /\ UNCHANGED << now, confirmedIds >>

\* ------------------------------------------------------------------- Next
AllCategories ==
    Range(DEFAULT_EXPENSE_CATEGORIES) \cup Range(DEFAULT_INCOME_CATEGORIES)
    \cup Range(DEFAULT_INVESTMENT_CATEGORIES)

Submit(forms) ==
    \E f \in forms, category \in AllCategories :
        HandleSubmit(f.type, category, f.amount, f.date)

UploadCompletes(statements) ==
    \E i \in 1..MaxUploads, results \in statements : HandleFileUploadCompletes(i, results)

UploadFails == \E i \in 1..MaxUploads : HandleFileUploadFails(i)

OpenModal == \E item \in AllCandidates : OpenAddModal(item)

PickType == \E type \in Types : SelectType(type)

PickCategory == \E cat \in Range(currentCategories) : SelectCategory(cat)

SelectItem == \E id \in {it.id : it \in AllCandidates} : HandleSelectItem(id)

DeleteTransaction ==
    \E txId \in {transactions[k].id : k \in 1..Len(transactions)} :
        HandleDeleteTransaction(txId)

\* Reconciliation: the Add form and the Database view's delete make and remove
\* the recorded transactions; statements are uploaded, re-analysed, confirmed.
Next ==
    \/ \E v \in {"add_transaction", "ai_tools", "database"} : ChangeView(v)
    \/ Submit(FormInputs)
    \/ LoadingTimeout
    \/ HandleFileUploadStarts
    \/ UploadCompletes(Statements)
    \/ UploadFails
    \/ AnalyzingTimeout
    \/ HandleGlobalReanalyze
    \/ HandleMatchedReanalyze
    \/ OpenModal
    \/ PickType
    \/ ConfirmAddTransaction
    \/ DeleteTransaction

Spec == Init /\ [][Next]_vars

\* Every operation of the AiTools view, over one form filling and single-line
\* statements.
NextUi ==
    \/ \E v \in {"add_transaction", "ai_tools", "settings"} : ChangeView(v)
    \/ Submit(OneFormInput)
    \/ LoadingTimeout
    \/ HandleFileUploadStarts
    \/ UploadCompletes(SingleLineStatements)
    \/ UploadFails
    \/ AnalyzingTimeout
    \/ HandleGlobalReanalyze
    \/ HandleMatchedReanalyze
    \/ OpenModal
    \/ PickType
    \/ PickCategory
    \/ ModalBack
    \/ CloseModal
    \/ ConfirmAddTransaction
    \/ ToggleSelectMode
    \/ SelectItem
    \/ HandleBatchDelete
    \/ CancelBatchDelete
    \/ ConfirmBatchDelete

SpecUi == Init /\ [][NextUi]_vars

SaveSettings == \E url \in UrlInputs : HandleSaveSettings(url)

SaveSettles ==
    \E i \in 1..MaxNow, outcome \in FetchOutcomes : SaveTransactionSettles(i, outcome)

RefreshCompletes ==
    \E i \in 1..MaxRefresh, outcome \in FetchOutcomes, body \in SheetBodies,
       rnd \in RandomIds :
        HandleRefreshCompletes(i, outcome, body, rnd)

UpdateTransaction ==
    \E i \in 1..MaxTx, date \in FormDates, amount \in UpdateAmounts :
        HandleUpdateTransaction(i, date, amount)

\* Write-back: transactions recorded by the Add form and by the AI confirm step
\* are written to the store the Settings view names; every fetch ends one of
\* the three ways.
NextSync ==
    \/ \E v \in {"add_transaction", "ai_tools", "database", "settings"} : ChangeView(v)
    \/ Submit(OneFormInput)
    \/ LoadingTimeout
    \/ HandleFileUploadStarts
    \/ UploadCompletes({<< ItemA >>})
    \/ OpenModal
    \/ PickType
    \/ ConfirmAddTransaction
    \/ SaveSettings
    \/ SaveSettles

SpecSync == Init /\ [][NextSync]_vars

\* Refresh: the Database view reads the source the Settings view names, again
\* and again, and deletes what it has read.
NextRefresh ==
    \/ \E v \in {"database", "settings"} : ChangeView(v)
    \/ SaveSettings
    \/ HandleRefreshStarts
    \/ RefreshCompletes
    \/ NotificationTimeout
    \/ DeleteTransaction

SpecRefresh == Init /\ [][NextRefresh]_vars

\* A row of the remote source whose amount cell holds no number.
RowWithoutAmount ==
    [id |-> "row-7", date |-> 11, amount |-> NaNAmount, category |-> "Lunch",
     note |-> "", source |-> ""]

RefreshCompletesFrom(bodies) ==
    \E i \in 1..MaxRefresh, outcome \in FetchOutcomes, body \in bodies, rnd \in RandomIds :
        HandleRefreshCompletes(i, outcome, body, rnd)

\* Storage: transactions come from the Add form and from the remote source,
\* and the page is reloaded at any moment.
NextStorage ==
    \/ \E v \in {"add_transaction", "database", "settings"} : ChangeView(v)
    \/ Submit(OneFormInput)
    \/ LoadingTimeout
    \/ SaveSettings
    \/ HandleRefreshStarts
    \/ RefreshCompletesFrom({ << RowWithoutAmount >> })
    \/ Reload

SpecStorage == Init /\ [][NextStorage]_vars

BudgetInput ==
    \E monthKey \in Months, category \in AllCategories, amount \in BudgetAmounts :
        HandleBudgetInput(monthKey, category, amount)

CopyFromPrevious == \E monthKey \in Months : HandleCopyFromPrevious(monthKey)

\* Budgets: the Budgeting view is opened from Settings, budgets are typed in
\* and copied from the month before.
NextBudget ==
    \/ \E v \in {"settings", "budget"} : ChangeView(v)
    \/ BudgetInput
    \/ CopyFromPrevious
    \/ NotificationTimeout

SpecBudget == Init /\ [][NextBudget]_vars

RowWithId == CHOOSE r \in SheetRows : r.id # ""

\* Responses of the remote source: one row, or the same row twice.
SampleBodies == {<< r >> : r \in SheetRows} \cup {<< RowWithId, RowWithId >>}

SaveSettingsTo(urls) == \E url \in urls : HandleSaveSettings(url)

\* Merging: the source is the default sheet (CSV) or an Apps Script url
\* (JSON); transactions are added while a fetch is in flight, and deleted.
NextMerge ==
    \/ \E v \in {"add_transaction", "database", "settings"} : ChangeView(v)
    \/ Submit(OneFormInput)
    \/ LoadingTimeout
    \/ SaveSettingsTo({ScriptUrl})
    \/ HandleRefreshStarts
    \/ RefreshCompletesFrom(SampleBodies)
    \/ DeleteTransaction

SpecMerge == Init /\ [][NextMerge]_vars

AddCategory ==
    \E type \in ManagedTypes, category \in NameInputs :
        Len(settings[CategoriesKey(type)]) < MaxCats /\ HandleAddCategory(type, category)

DeleteCategory ==
    \E type \in ManagedTypes, k \in 1..MaxCats :
        k <= Len(settings[CategoriesKey(type)])
        /\ HandleDeleteCategory(type, settings[CategoriesKey(type)][k])

EditCategory ==
    \E type \in ManagedTypes, k \in 1..MaxCats, newName \in NameInputs :
        k <= Len(settings[CategoriesKey(type)])
        /\ HandleEditCategory(type, settings[CategoriesKey(type)][k], newName)

SubmitOf(forms, categories) ==
    \E f \in forms, category \in categories :
        Len(transactions) < MaxUsed /\ HandleSubmit(f.type, category, f.amount, f.date)

BudgetInputOf(categories, amounts) ==
    \E monthKey \in Months, category \in categories, amount \in amounts :
        HandleBudgetInput(monthKey, category, amount)

\* Categories: transactions are recorded, budgets typed in, and the category
\* lists are extended, pruned and renamed.
NextCategories ==
    \/ \E v \in {"add_transaction", "budget", "edit_categories"} : ChangeView(v)
    \/ SubmitOf(OneFormInput, AllCategories \cup {Trim(n) : n \in NameInputs})
    \/ LoadingTimeout
    \/ BudgetInputOf({DEFAULT_EXPENSE_CATEGORIES[1], "Travel"}, {100000, 250000})
    \/ AddCategory
    \/ DeleteCategory
    \/ EditCategory

SpecCategories == Init /\ [][NextCategories]_vars

\* The names typed while the lists are edited: blank ones, padded ones and
\* ones the default lists hold.
ListNames == {" ", " Travel ", "Travel", "Lunch", DEFAULT_EXPENSE_CATEGORIES[1]}

AddCategoryOf(names) ==
    \E type \in ManagedTypes, category \in names :
        Len(settings[CategoriesKey(type)]) < MaxList /\ HandleAddCategory(type, category)

DeleteCategoryOf(types) ==
    \E type \in types, k \in 1..MaxList :
        k <= Len(settings[CategoriesKey(type)])
        /\ HandleDeleteCategory(type, settings[CategoriesKey(type)][k])

EditCategoryOf(names) ==
    \E type \in ManagedTypes, k \in 1..MaxList, newName \in names :
        k <= Len(settings[CategoriesKey(type)])
        /\ HandleEditCategory(type, settings[CategoriesKey(type)][k], newName)

DragSort ==
    \E type \in ManagedTypes, dragItem \in 0..(MaxList - 1), dragOverItem \in 0..(MaxList - 1) :
        HandleDragSort(type, dragItem, dragOverItem)

\* Category lists: names are added, renamed, deleted and dragged to another
\* place.
NextLists ==
    \/ ChangeView("edit_categories")
    \/ AddCategoryOf(ListNames)
    \/ DeleteCategoryOf(ManagedTypes)
    \/ EditCategoryOf(ListNames)
    \/ DragSort

SpecLists == Init /\ [][NextLists]_vars


\* ------------------------------------------------------- claims: vocabulary
\* Amount and date proximity as the specification words it: absolute amounts
\* less than 0.01 apart, both dates valid and at most 10 days apart.
Near(item, tx) ==
    /\ Abs(Abs(item.amount) - Abs(tx.amount)) < Epsilon
    /\ item.date >= 0 /\ tx.date >= 0
    /\ Abs(item.date - tx.date) <= DayWindow

SuggestedOf(pairs) == [k \in 1..Len(pairs) |-> pairs[k].suggested]

Occurrences(list, x) == Cardinality({k \in 1..Len(list) : list[k] = x})

ReanalyzeMessages ==
    { "Moved 1 item(s) to the matched section.", "Moved 2 item(s) to the matched section.",
      "No new matches found in suggested items." }

C2_FirstMatchWins ==
    [][HandleGlobalReanalyze =>
        \A i \in 1..Len(aiFoundItems) :
            LET item == aiFoundItems[i]
                matching == {k \in 1..Len(sortedTransactions) :
                                item.amount # 0 /\ Near(item, sortedTransactions[k])}
            IN  (~item.added /\ matching # {}) =>
                    LET first == CHOOSE k \in matching : \A j \in matching : k <= j
                        pair == [suggested |-> item, matched |-> sortedTransactions[first]]
                    IN  /\ Occurrences(aiMatchedItems', pair) = 1
                        /\ Occurrences(SuggestedOf(aiMatchedItems'), item) = 1
                        /\ (\A k \in 1..Len(transactions) : transactions[k].date >= 0)
                            => \A j \in matching :
                                  sortedTransactions[j].date <= pair.matched.date
    ]_vars

\* A pair whose candidate matched two recorded transactions of different dates.
C2_Witness ==
    /\ notification \in ReanalyzeMessages
    /\ \E p \in 1..Len(aiMatchedItems), j, k \in 1..Len(transactions) :
          /\ transactions[j].date # transactions[k].date
          /\ Near(aiMatchedItems[p].suggested, transactions[j])
          /\ Near(aiMatchedItems[p].suggested, transactions[k])
          /\ aiMatchedItems[p].matched = transactions[k]

\* C3 as claimed: after handleGlobalReanalyze every candidate of the suggested
\* list is in exactly one of the suggested list and the matched list.
C3_EveryCandidateKept ==
    [][HandleGlobalReanalyze =>
        \A i \in 1..Len(aiFoundItems) :
            Occurrences(aiFoundItems', aiFoundItems[i])
            + Occurrences(SuggestedOf(aiMatchedItems'), aiFoundItems[i]) = 1
    ]_vars

\* C3 amended: every not-yet-added candidate of the suggested list is in exactly
\* one of the two lists afterwards; a candidate already added is in neither.
C3_PartitionOfNotAdded ==
    [][HandleGlobalReanalyze =>
        \A i \in 1..Len(aiFoundItems) :
            Occurrences(aiFoundItems', aiFoundItems[i])
            + Occurrences(SuggestedOf(aiMatchedItems'), aiFoundItems[i])
            = IF aiFoundItems[i].added THEN 0 ELSE 1
    ]_vars

\* A re-analysis has dropped a confirmed candidate and kept or moved another.
C3_Witness ==
    /\ notification \in ReanalyzeMessages
    /\ confirmedIds # {}
    /\ \A i \in 1..Len(aiFoundItems) : aiFoundItems[i].id \notin confirmedIds
    /\ \A i \in 1..Len(aiMatchedItems) : aiMatchedItems[i].suggested.id \notin confirmedIds
    /\ Len(aiFoundItems) + Len(aiMatchedItems) > 0

\* C4 as claimed: on upload an extracted candidate with a known amount is
\* withheld from the suggested list exactly when some existing transaction (of
\* the list the upload compares against) matches it on amount and on date
\* proximity; with an equal amount and a date out of the window it is suggested.
C4_UploadWithholdsExactlyTheMatches ==
    [][\A i \in 1..MaxUploads, results \in Statements :
        HandleFileUploadCompletes(i, results) =>
            \A k \in 1..Len(results) :
                LET scannedTx == WithIds(results, now')[k]
                    existing == uploads[i].transactions
                IN  scannedTx.amount # 0 =>
                       (~Includes(aiFoundItems', scannedTx)
                        <=> \E j \in 1..Len(existing) : Near(scannedTx, existing[j]))
    ]_vars

\* The operations of the AI tools view other than confirmAddTransaction.
AiOperationsButConfirm ==
    \/ HandleFileUploadStarts
    \/ UploadCompletes(SingleLineStatements)
    \/ UploadFails
    \/ AnalyzingTimeout
    \/ HandleGlobalReanalyze
    \/ HandleMatchedReanalyze
    \/ OpenModal
    \/ PickType
    \/ PickCategory
    \/ ModalBack
    \/ CloseModal
    \/ ToggleSelectMode
    \/ SelectItem
    \/ HandleBatchDelete
    \/ CancelBatchDelete
    \/ ConfirmBatchDelete

\* C5: among the operations of the AI tools view only confirmAddTransaction
\* changes the transactions list (it prepends one transaction whose source is
\* the statement); upload, re-analysis of either list, the modal steps, select
\* mode, selection and batch delete leave the list unchanged.
C5_OnlyConfirmRecords ==
    [][ /\ AiOperationsButConfirm => transactions' = transactions
        /\ ConfirmAddTransaction =>
              /\ Len(transactions') = Len(transactions) + 1
              /\ SubSeq(transactions', 2, Len(transactions')) = transactions
              /\ transactions'[1].source = "PDF file"
    ]_vars

\* A confirmed candidate has been recorded and a batch delete has then removed
\* candidates without touching the record.
C5_Witness ==
    /\ \E k \in 1..Len(transactions) : transactions[k].source = "PDF file"
    /\ confirmedIds # {}
    /\ aiFoundItems = << >> /\ aiMatchedItems = << >>
    /\ ~isAiSelectModeActive /\ selectedIds # {}

C7_NoConfirmedItemSuggested ==
    \A i \in 1..Len(aiFoundItems) : aiFoundItems[i].id \notin confirmedIds

\* C7 amended: an item of the suggested list has been confirmed by the user
\* exactly when it carries the added flag; a confirmed item stays in the list,
\* flagged, until a re-analysis or a batch delete removes it.
C7_ConfirmedIffFlaggedAdded ==
    \A i \in 1..Len(aiFoundItems) :
        aiFoundItems[i].added <=> aiFoundItems[i].id \in confirmedIds

\* A confirmed item in the suggested list, flagged added and recorded.
C7_Witness ==
    \E i \in 1..Len(aiFoundItems) :
        /\ aiFoundItems[i].added
        /\ aiFoundItems[i].id \in confirmedIds
        /\ \E k \in 1..Len(transactions) : transactions[k].source = "PDF file"

\* C8 as claimed: every transaction recorded through the Add form or the AI
\* confirm step has exactly one write request carrying it sent to the store.
C8_EveryRecordIsWritten ==
    [][(Submit(OneFormInput) \/ ConfirmAddTransaction) =>
        /\ Len(requests') = Len(requests) + 1
        /\ requests'[Len(requests')].data = transactions'[1]
    ]_vars

\* C8 amended: a transaction recorded through the Add form or the AI confirm
\* step has exactly one write request carrying it sent to the configured url
\* when that url is not empty and does not contain docs.google.com; otherwise
\* no request is sent and the save reports success.  No other step sends one.
C8_WrittenUnlessReadOnlySource ==
    [][ /\ (Submit(OneFormInput) \/ ConfirmAddTransaction) =>
              IF settings.sheetDbUrl = ""
                 \/ StrIncludes(settings.sheetDbUrl, "docs.google.com")
              THEN requests' = requests /\ saveResult' = "true"
              ELSE requests' = Append(requests, [ url |-> settings.sheetDbUrl,
                                                  action |-> "add",
                                                  data |-> transactions'[1] ])
        /\ ~(Submit(OneFormInput) \/ ConfirmAddTransaction) =>
              Len(requests') <= Len(requests)
    ]_vars

\* A request carrying a confirmed statement item is in flight, and a
\* transaction of the Add form is recorded for which none was sent.
C8_Witness ==
    /\ \E r \in 1..Len(requests) :
          /\ requests[r].data.source = "PDF file"
          /\ requests[r].data \in Range(transactions)
    /\ \E k \in 1..Len(transactions) :
          /\ transactions[k].source = "app input"
          /\ \A r \in 1..Len(requests) : requests[r].data # transactions[k]
    /\ saveResult = "true"

\* C9: when the fetch of saveTransaction throws or answers with a non-OK
\* status the promise resolves to false, no further request is sent, and the
\* transaction the request carries stays in the transactions list, untouched.
C9_FailedSaveHasNoRecovery ==
    [][\A i \in 1..MaxNow, outcome \in {"notOk", "throw"} :
        SaveTransactionSettles(i, outcome) =>
            /\ saveResult' = "false"
            /\ Len(requests') = Len(requests) - 1
            /\ \A r \in 1..Len(requests') : requests'[r] \in Range(requests)
            /\ transactions' = transactions
            /\ requests[i].data \in Range(transactions)
                  => requests[i].data \in Range(transactions')
    ]_vars

\* A save has failed, nothing is in flight, and the transaction is recorded.
C9_Witness ==
    /\ saveResult = "false"
    /\ requests = << >>
    /\ Len(transactions) > 0
    /\ settings.sheetDbUrl = ScriptUrl

\* C10 as claimed: when the fetch of a refresh throws or answers with a non-OK
\* status the transactions list is unchanged and the notification is
\* "Failed to sync from sheet.".
C10_FailedRefreshIsReported ==
    [][\A i \in 1..MaxRefresh, outcome \in {"notOk", "throw"}, body \in SheetBodies,
          rnd \in RandomIds :
        HandleRefreshCompletes(i, outcome, body, rnd) =>
            /\ transactions' = transactions
            /\ notification' = "Failed to sync from sheet."
    ]_vars

\* C11 as claimed: a reload of the page restores from localStorage exactly the
\* transactions, the suggested list, the matched list and the settings that
\* were in memory.
C11_ReloadRestoresState ==
    [][Reload =>
        /\ transactions' = transactions
        /\ aiFoundItems' = aiFoundItems
        /\ aiMatchedItems' = aiMatchedItems
        /\ settings' = settings
    ]_vars

\* C12 as claimed: after the re-analysis of the matched list that list holds
\* exactly its not-yet-added candidates that still match a transaction, each
\* paired with its current first match, and a candidate that matches no
\* transaction any more has left it for the suggested list.
C12_MatchedReanalyzeReclassifies ==
    [][HandleMatchedReanalyze =>
        /\ \A p \in 1..Len(aiMatchedItems) :
              LET item == aiMatchedItems[p].suggested
                  matching == {k \in 1..Len(sortedTransactions) :
                                  item.amount # 0 /\ Near(item, sortedTransactions[k])}
              IN  ~item.added =>
                      IF matching # {}
                      THEN LET first == CHOOSE k \in matching : \A j \in matching : k <= j
                           IN  /\ Includes(aiMatchedItems',
                                           [ suggested |-> item,
                                             matched |-> sortedTransactions[first] ])
                               /\ ~Includes(aiFoundItems', item)
                      ELSE /\ ~Includes(SuggestedOf(aiMatchedItems'), item)
                           /\ Includes(aiFoundItems', item)
        /\ \A q \in 1..Len(aiMatchedItems') :
              /\ ~aiMatchedItems'[q].suggested.added
              /\ \E k \in 1..Len(sortedTransactions) :
                    Near(aiMatchedItems'[q].suggested, sortedTransactions[k])
    ]_vars

\* C13 as claimed: every candidate an upload adds to the suggested list has,
\* at the moment it is added, no recorded transaction within 0.01 of its
\* absolute amount, whatever was recorded while the analysis was in flight.
C13_UploadSuggestsOnlyMissing ==
    [][\A i \in 1..MaxUploads, results \in Statements :
        HandleFileUploadCompletes(i, results) =>
            \A k \in 1..Len(aiFoundItems') :
                ~Includes(aiFoundItems, aiFoundItems'[k]) =>
                    \A j \in 1..Len(transactions') :
                        ~(Abs(Abs(aiFoundItems'[k].amount) - Abs(transactions'[j].amount))
                            < Epsilon)
    ]_vars

\* C14 as claimed: the category of every transaction created by the Add form
\* or by the add modal of the AI tools is a member of the category list of
\* the transaction's type.
C14_TypeAndCategoryAgree ==
    [][(Submit(OneFormInput) \/ ConfirmAddTransaction) =>
        Includes(CategoriesOf(transactions'[1].type), transactions'[1].category)
    ]_vars

\* C15 as claimed: when the month before has a budgeted category, after
\* handleCopyFromPrevious the viewed month's budget of every category
\* budgeted in the month before equals that month's amount.
C15_CopyCopiesEveryCategory ==
    [][\A monthKey \in Months :
        HandleCopyFromPrevious(monthKey) =>
            LET prev == BudgetsOfMonth(settings.monthlyCategoryBudgets, monthKey - 1)
                copied == BudgetsOfMonth(settings'.monthlyCategoryBudgets, monthKey)
            IN  \A k \in 1..Len(prev) :
                    Lookup(copied, prev[k].category) = prev[k].amount
    ]_vars

\* The ids of a list of transactions.
IdsOf(txs) == {txs[k].id : k \in 1..Len(txs)}

\* C16: a refresh leaves the transactions the list holds when the update is
\* applied, and their order, as they are, and appends exactly the fetched
\* transactions that have a non-empty id not in the list at that time, in
\* the order they were fetched.
C16_RefreshOnlyAppends ==
    [][Len(refreshes') < Len(refreshes) =>      \* a fetch has ended
       \A i \in 1..MaxRefresh, outcome \in FetchOutcomes, body \in SampleBodies,
          rnd \in RandomIds :
        HandleRefreshCompletes(i, outcome, body, rnd) =>
            LET fetched == fetchTransactions(refreshes[i].urlToFetch,
                                             refreshes[i].incomeCategories,
                                             refreshes[i].investmentCategories,
                                             outcome, body, rnd).data
                n == Len(transactions)
                appended == SubSeq(transactions', n + 1, Len(transactions'))
                fresh == {k \in 1..Len(fetched) :
                            fetched[k].id # "" /\ fetched[k].id \notin IdsOf(transactions)}
            IN  /\ Len(transactions') >= n
                /\ SubSeq(transactions', 1, n) = transactions
                /\ Len(appended) = Cardinality(fresh)
                /\ \A k \in fresh : Includes(appended, fetched[k])
                /\ \A a, b \in fresh :
                      a < b => \E x, y \in 1..Len(appended) :
                                  x < y /\ appended[x] = fetched[a] /\ appended[y] = fetched[b]
    ]_vars

\* A refresh has appended a fetched row behind a transaction of the Add form
\* and has left out the fetched row whose id the list held.
C16_Witness ==
    /\ notification = "1 new transaction(s) synced."
    /\ Len(transactions) = 2
    /\ transactions[1].source = "app input"
    /\ transactions[1].id = RowWithId.id
    /\ transactions[2].id \in RandomIds

\* C17 as claimed: after a refresh that has read the source, a second refresh
\* that reads the same content from the same source finds nothing new.
C17_RefreshIsIdempotent ==
    [][Len(refreshes') < Len(refreshes) =>      \* a fetch has ended
       \A i \in 1..MaxRefresh, body \in SampleBodies, rnd \in RandomIds :
        HandleRefreshCompletes(i, "ok", body, rnd) =>
            \A again \in RandomIds :
                NewTxsFromSheet(transactions',
                                fetchTransactions(refreshes[i].urlToFetch,
                                                  refreshes[i].incomeCategories,
                                                  refreshes[i].investmentCategories,
                                                  "ok", body, again).data) = << >>
    ]_vars

\* C18 as claimed: no two transactions of the list share an id.
C18_IdsAreUnique ==
    \A j, k \in 1..Len(transactions) : transactions[j].id = transactions[k].id => j = k

\* The three category lists.
CategoryLists(s) == << s.incomeCategories, s.expenseCategories, s.investmentCategories >>

IsUsed(category) == \E k \in 1..Len(transactions) : transactions[k].category = category

\* C19: handleDeleteCategory on a category that is the category of at least
\* one transaction leaves all three category lists unchanged and shows the
\* "Cannot delete ... in use" notification; on an unused category it removes
\* that name from the list of the given type and leaves the other two lists
\* as they were.
C19_UsedCategoryIsNotDeleted ==
    [][\A type \in Types, k \in 1..MaxCats :
          LET key == CategoriesKey(type)
              cat == settings[key][k]
          IN  (k <= Len(settings[key]) /\ HandleDeleteCategory(type, cat)) =>
                IF IsUsed(cat)
                THEN /\ CategoryLists(settings') = CategoryLists(settings)
                     /\ notification' = "Cannot delete \"" \o cat \o "\" as it's in use."
                ELSE /\ settings'[key] = SelectSeq(settings[key], LAMBDA c : c # cat)
                     /\ ~Includes(settings'[key], cat)
                     /\ \A other \in Types \ {type} :
                            settings'[CategoriesKey(other)] = settings[CategoriesKey(other)]
      ]_vars

\* A delete of a category in use has just been turned down.
C19_Witness ==
    \E k \in 1..Len(settings.expenseCategories) :
        LET cat == settings.expenseCategories[k]
        IN  /\ IsUsed(cat)
            /\ notification = "Cannot delete \"" \o cat \o "\" as it's in use."

\* What an accepted rename of oldName to name leaves behind.
Renamed(type, k, oldName, name) ==
    LET key == CategoriesKey(type)
        budgets == settings.monthlyCategoryBudgets
    IN  /\ Len(settings'[key]) = Len(settings[key])
        /\ settings'[key][k] = name
        /\ Len(transactions') = Len(transactions)
        /\ \A j \in 1..Len(transactions) :
              transactions'[j] = IF transactions[j].category = oldName
                                 THEN [transactions[j] EXCEPT !.category = name]
                                 ELSE transactions[j]
        /\ DOMAIN settings'.monthlyCategoryBudgets = DOMAIN budgets
        /\ \A monthKey \in DOMAIN budgets :
              HasKey(budgets[monthKey], oldName) =>
                /\ Lookup(settings'.monthlyCategoryBudgets[monthKey], name)
                     = Lookup(budgets[monthKey], oldName)
                /\ ~HasKey(settings'.monthlyCategoryBudgets[monthKey], oldName)

\* C20 as stated: after an accepted handleEditCategory(type, old, new) the
\* name new, as it was typed, stands where old stood in that type's list,
\* every transaction of category old has category new and nothing else of
\* the transactions changes, and every month's budget under old is stored
\* under new with old removed.
C20_RenamePropagatesTypedName ==
    [][\A type \in Types, k \in 1..MaxCats, newName \in NameInputs :
          LET key == CategoriesKey(type)
              oldName == settings[key][k]
          IN  ( /\ k <= Len(settings[key])
                /\ ~Includes(settings[key], Trim(newName))
                /\ HandleEditCategory(type, oldName, newName) )
              => Renamed(type, k, oldName, newName)
      ]_vars

\* C20 amended: the same, with the name the rename stores, which is new
\* without its leading and trailing whitespace.
C20_RenamePropagatesTrimmedName ==
    [][\A type \in Types, k \in 1..MaxCats, newName \in NameInputs :
          LET key == CategoriesKey(type)
              oldName == settings[key][k]
          IN  ( /\ k <= Len(settings[key])
                /\ ~Includes(settings[key], Trim(newName))
                /\ HandleEditCategory(type, oldName, newName) )
              => Renamed(type, k, oldName, Trim(newName))
      ]_vars

\* A rename has just gone through for a category that a transaction had
\* and a month's budget was stored under.
C20_Witness ==
    /\ notification = "Renamed \"" \o DEFAULT_EXPENSE_CATEGORIES[1] \o "\" to \"Travel\""
    /\ IsUsed("Travel")
    /\ \E monthKey \in DOMAIN settings.monthlyCategoryBudgets :
          HasKey(settings.monthlyCategoryBudgets[monthKey], "Travel")
    /\ ~Includes(settings.expenseCategories, DEFAULT_EXPENSE_CATEGORIES[1])

\* No name twice and no blank name in the list.
DuplicateFree(list) ==
    /\ \A i, j \in 1..Len(list) : list[i] = list[j] => i = j
    /\ \A i \in 1..Len(list) : Trim(list[i]) # ""

\* C21: after any sequence of handleAddCategory, handleEditCategory,
\* handleDeleteCategory and drag reordering from the default lists, no
\* category list holds the same name twice and none holds a blank name; an
\* add or a rename of a blank or already existing name leaves the settings
\* unchanged.
C21_ListsStayDuplicateFree ==
    /\ [](\A type \in Types : DuplicateFree(settings[CategoriesKey(type)]))
    /\ [][\A type \in Types, name \in ListNames :
            LET list == settings[CategoriesKey(type)]
                rejected == Trim(name) = "" \/ Includes(list, Trim(name))
            IN  /\ (rejected /\ HandleAddCategory(type, name)) => settings' = settings
                /\ \A k \in 1..Len(list) :
                      (rejected /\ HandleEditCategory(type, list[k], name))
                          => settings' = settings
         ]_vars

\* An add of a name the list holds has just been turned down, in a list
\* that grew, was reordered and had its default name renamed.
C21_Witness ==
    /\ notification = "Category already exists."
    /\ settings.expenseCategories = << "Lunch", "Travel" >>
    /\ Len(settings.incomeCategories) = MaxList

\* The ids of the candidates of both lists, suggested list first.
CandidateIds ==
    [i \in 1..Len(aiFoundItems) |-> aiFoundItems[i].id]
    \o [i \in 1..Len(aiMatchedItems) |-> aiMatchedItems[i].suggested.id]

\* C22: in every reachable state no candidate id occurs twice in the
\* suggested list, twice in the matched list, or in both lists at once,
\* across uploads, re-analysis of either list, confirm and batch delete.
\* (Date.now() of the ids is the clock of the model, which has advanced
\* whenever an upload is answered.)
C22_CandidatesHeldOnce ==
    \A i, j \in 1..Len(CandidateIds) : CandidateIds[i] = CandidateIds[j] => i = j

\* Candidates of two uploads are held, one still suggested and one that a
\* re-analysis has moved to the matched list.
C22_Witness ==
    /\ Len(aiFoundItems) > 0
    /\ Len(aiMatchedItems) > 0
    /\ aiFoundItems[1].id # aiMatchedItems[1].suggested.id

====
